---- MODULE Spec2Model ----
(***************************************************************************)
(* Model of HubitatDeviceEventsService                                     *)
(* (src/src/hubitat-device-events/hubitat-device-events.service.ts):       *)
(* the subscription registry (three indices and the subscribed set), the   *)
(* trigger matcher and the event router.                                   *)
(***************************************************************************)
EXTENDS Integers, Sequences, FiniteSets, TLC

(***************************************************************************)
(* Bounds                                                                  *)
(***************************************************************************)
\* device ids range over 5..MaxDeviceId
MaxDeviceId == 6
\* longest ChangeGroup.filters sequence drawn for the matcher
MaxGroupLen == 2
\* longest builtTriggers list drawn for the matcher
MaxTriggers == 2

(***************************************************************************)
(* Data model                                                              *)
(***************************************************************************)
HUBITAT_DEVICE_EVENT_TYPE == "hubitat-device-event"
OtherType == "other-event"

Automations == {"A", "B", "C"}
DeviceIds == 5..MaxDeviceId
AttributeNames == {"switch", "level"}
Values == {"on", "off"}

\* events handed to handleEvent
DeviceEvents ==
  [eventType : {HUBITAT_DEVICE_EVENT_TYPE}, deviceId : DeviceIds,
   attributeName : AttributeNames, newValue : Values, previousValue : Values]

ForeignEvents ==
  [eventType : {OtherType}, deviceId : {5},
   attributeName : AttributeNames, newValue : {"on"}, previousValue : Values]

Events == DeviceEvents \cup ForeignEvents

NoEvent ==
  [eventType |-> "none", deviceId |-> 0, attributeName |-> "",
   newValue |-> "", previousValue |-> ""]

\* constructors of the trigger model
Filter(n, v) == [name |-> n, value |-> v]
Group(fs) == [filters |-> fs]
AttrFilter(names, groups) == [attributeNames |-> names, changeGroups |-> groups]
Trigger(devs, attrs) ==
  [triggerType |-> HUBITAT_DEVICE_EVENT_TYPE, devices |-> devs, attributes |-> attrs]
\* a trigger definition of another integration; it carries the same fields so
\* that only its triggerType tells it apart from a catch-all definition
ForeignTrigger == [triggerType |-> OtherType, devices |-> {}, attributes |-> <<>>]

Range(s) == {s[i] : i \in 1..Len(s)}

(***************************************************************************)
(* Trigger matcher                                                         *)
(***************************************************************************)
\* `${filter.value}`: filter values are strings, whose template literal is
\* the string itself
TemplateLiteral(v) == v

matchFilter_swapped(filter, event) ==
  CASE filter.name = "changes" -> TRUE
    [] filter.name = "is" -> event.newValue = TemplateLiteral(filter.value)
    [] filter.name = "is-not" -> event.newValue # TemplateLiteral(filter.value)
    [] filter.name = "was" -> event.newValue = TemplateLiteral(filter.value)
    [] filter.name = "was-not" -> event.previousValue # TemplateLiteral(filter.value)
    [] OTHER -> FALSE

matchFilter(filter, event) ==
  CASE filter.name = "changes" -> TRUE
    [] filter.name = "is" -> event.newValue = TemplateLiteral(filter.value)
    [] filter.name = "is-not" -> event.newValue # TemplateLiteral(filter.value)
    [] filter.name = "was" -> event.previousValue = TemplateLiteral(filter.value)
    [] filter.name = "was-not" -> event.previousValue # TemplateLiteral(filter.value)
    [] OTHER -> FALSE

\* all(collection, predicate) of common/collections-helpers, applied to the
\* change filters of a group
RECURSIVE all(_, _)
all(filters, event) ==
  IF filters = <<>> THEN TRUE
  ELSE IF ~matchFilter(Head(filters), event) THEN FALSE
  ELSE all(Tail(filters), event)

RECURSIVE matchGroupsFrom(_, _)
matchGroupsFrom(changeGroups, event) ==
  IF changeGroups = <<>> THEN FALSE
  ELSE IF all(Head(changeGroups).filters, event) THEN TRUE
  ELSE matchGroupsFrom(Tail(changeGroups), event)

matchGroups(attributeFilter, event) ==
  matchGroupsFrom(attributeFilter.changeGroups, event)

RECURSIVE matchAttributesFrom(_, _)
matchAttributesFrom(attributes, event) ==
  IF attributes = <<>> THEN FALSE
  ELSE IF event.attributeName \notin Head(attributes).attributeNames
       THEN matchAttributesFrom(Tail(attributes), event)
  ELSE IF matchGroups(Head(attributes), event) THEN TRUE
  ELSE matchAttributesFrom(Tail(attributes), event)

matchAttributes(trigger, event) == matchAttributesFrom(trigger.attributes, event)

matchDevice_noAttributes(trigger, event) ==
  event.deviceId \in trigger.devices

matchDevice(trigger, event) ==
  IF event.deviceId \notin trigger.devices THEN FALSE
  ELSE IF Len(trigger.attributes) = 0 THEN TRUE
  ELSE matchAttributes(trigger, event)

getCompatibleTriggers_unfiltered(triggerDefinitions) == triggerDefinitions

getCompatibleTriggers(triggerDefinitions) ==
  SelectSeq(triggerDefinitions, LAMBDA t : t.triggerType = HUBITAT_DEVICE_EVENT_TYPE)

matchTriggers_firstDecides(triggers, event) ==
  IF triggers = <<>> THEN FALSE
  ELSE LET trigger == Head(triggers) IN
    IF trigger.devices = {}
    THEN Len(trigger.attributes) = 0 \/ matchAttributes(trigger, event)
    ELSE matchDevice(trigger, event)

RECURSIVE matchTriggers(_, _)
matchTriggers(triggers, event) ==
  IF triggers = <<>> THEN FALSE
  ELSE LET trigger == Head(triggers) IN
    IF trigger.devices = {}
    THEN IF Len(trigger.attributes) = 0 THEN TRUE
         ELSE IF matchAttributes(trigger, event) THEN TRUE
         ELSE matchTriggers(Tail(triggers), event)
    ELSE IF matchDevice(trigger, event) THEN TRUE
    ELSE matchTriggers(Tail(triggers), event)

\* matchEvent(automation, event), given automation.builtTriggers
matchEvent(builtTriggers, event) ==
  matchTriggers(getCompatibleTriggers(builtTriggers), event)

\* HubitatDeviceTriggerDefinition.allAttributeNames
allAttributeNames(trigger) ==
  UNION {trigger.attributes[i].attributeNames : i \in 1..Len(trigger.attributes)}

(***************************************************************************)
(* Subscribers collections (common/subscribers-set, common/subscribers-map)*)
(* A SubscribersSet is kept as the sequence of its members in insertion    *)
(* order; a SubscribersMap maps every key to such a set, empty for a key   *)
(* that has no subscriber.                                                 *)
(***************************************************************************)
subscribe(set, automation) ==
  IF automation \in Range(set) THEN set ELSE Append(set, automation)

unsubscribe(set, automation) ==
  SelectSeq(set, LAMBDA x : x # automation)

mapSubscribe(map, keys, automation) ==
  [k \in DOMAIN map |-> IF k \in keys THEN subscribe(map[k], automation) ELSE map[k]]

mapUnsubscribe(map, keys, automation) ==
  [k \in DOMAIN map |-> IF k \in keys THEN unsubscribe(map[k], automation) ELSE map[k]]

getSet(map, key) == IF key \in DOMAIN map THEN map[key] ELSE <<>>

getSubscribers(map) == UNION {Range(map[k]) : k \in DOMAIN map}

(***************************************************************************)
(* State                                                                   *)
(***************************************************************************)
VARIABLES
  builtTriggers,                \* automation.builtTriggers of every automation
  subscriptionsByDeviceId,
  subscriptionsByAttributeName,
  subscriptionsOfAllEvents,
  subscribedAutomations,
  pc,                           \* "idle", or "dispatch" inside handleEvent
  op,                           \* the public method called last
  automation,                   \* its argument (register / unregister)
  event,                        \* its argument (handleEvent)
  error,                        \* whether that call has thrown
  unhandledAutomations,         \* handleEvent's working copy
  bucket,                       \* which of the three loops handleEvent is in
  index,                        \* position of that loop's iterator
  invoked,                      \* automation.handleEvent calls made by the call
  lifecycle,                    \* per automation: never / registered / unregistered
  matchInput,                   \* arguments of a matcher evaluation
  matchOutput,                  \* its results
  regOrder,                     \* automations by their latest registration
  reregistered,                 \* automations registered more than once
  previous,                     \* how the preceding handleEvent call failed
  joined                        \* automations registered by callbacks of the call

registry ==
  <<subscriptionsByDeviceId, subscriptionsByAttributeName,
    subscriptionsOfAllEvents, subscribedAutomations>>

locals == <<unhandledAutomations, bucket, index>>

matcher == <<matchInput, matchOutput>>

history == <<regOrder, reregistered, previous, joined>>

vars ==
  <<builtTriggers, subscriptionsByDeviceId, subscriptionsByAttributeName,
    subscriptionsOfAllEvents, subscribedAutomations, pc, op, automation, event,
    error, unhandledAutomations, bucket, index, invoked, lifecycle,
    matchInput, matchOutput, regOrder, reregistered, previous, joined>>

NoAutomation == "-"

NoPrevious == [failed |-> NoAutomation, pending |-> {}]

\* the registry as one value, for the loops of register / unregister
Reg == [all |-> subscriptionsOfAllEvents, byDevice |-> subscriptionsByDeviceId,
        byAttribute |-> subscriptionsByAttributeName,
        subscribed |-> subscribedAutomations]

(***************************************************************************)
(* Subscription registry                                                   *)
(***************************************************************************)
registerTrigger_attributesFirst(reg, trigger, a) ==
  IF trigger.devices = {} /\ Len(trigger.attributes) = 0
  THEN [reg EXCEPT !.subscribed = @ \cup {a}, !.all = subscribe(@, a)]
  ELSE IF Len(trigger.attributes) > 0
  THEN [reg EXCEPT !.subscribed = @ \cup {a},
                   !.byAttribute = mapSubscribe(@, allAttributeNames(trigger), a)]
  ELSE IF trigger.devices # {}
  THEN [reg EXCEPT !.subscribed = @ \cup {a},
                   !.byDevice = mapSubscribe(@, trigger.devices, a)]
  ELSE reg

\* one iteration of the loop of registerAutomation
registerTrigger(reg, trigger, a) ==
  IF trigger.devices = {} /\ Len(trigger.attributes) = 0
  THEN [reg EXCEPT !.subscribed = @ \cup {a}, !.all = subscribe(@, a)]
  ELSE IF trigger.devices # {}
  THEN [reg EXCEPT !.subscribed = @ \cup {a},
                   !.byDevice = mapSubscribe(@, trigger.devices, a)]
  ELSE IF Len(trigger.attributes) > 0
  THEN [reg EXCEPT !.subscribed = @ \cup {a},
                   !.byAttribute = mapSubscribe(@, allAttributeNames(trigger), a)]
  ELSE reg

RECURSIVE registerTriggers(_, _, _)
registerTriggers(reg, triggers, a) ==
  IF triggers = <<>> THEN reg
  ELSE registerTriggers(registerTrigger(reg, Head(triggers), a), Tail(triggers), a)

unregisterTrigger_keepDevices(reg, trigger, a) ==
  IF trigger.devices = {} /\ Len(trigger.attributes) = 0
  THEN [reg EXCEPT !.all = unsubscribe(@, a)]
  ELSE IF trigger.devices # {}
  THEN reg
  ELSE IF Len(trigger.attributes) > 0
  THEN [reg EXCEPT !.byAttribute = mapUnsubscribe(@, allAttributeNames(trigger), a)]
  ELSE reg

\* one iteration of the loop of unregisterAutomation
unregisterTrigger(reg, trigger, a) ==
  IF trigger.devices = {} /\ Len(trigger.attributes) = 0
  THEN [reg EXCEPT !.all = unsubscribe(@, a)]
  ELSE IF trigger.devices # {}
  THEN [reg EXCEPT !.byDevice = mapUnsubscribe(@, trigger.devices, a)]
  ELSE IF Len(trigger.attributes) > 0
  THEN [reg EXCEPT !.byAttribute = mapUnsubscribe(@, allAttributeNames(trigger), a)]
  ELSE reg

RECURSIVE unregisterTriggers(_, _, _)
unregisterTriggers(reg, triggers, a) ==
  IF triggers = <<>> THEN reg
  ELSE unregisterTriggers(unregisterTrigger(reg, Head(triggers), a), Tail(triggers), a)

recreateSubscribedAutomationsSet_patched(reg) == reg

recreateSubscribedAutomationsSet(reg) ==
  [reg EXCEPT !.subscribed =
     Range(reg.all) \cup getSubscribers(reg.byDevice) \cup getSubscribers(reg.byAttribute)]

\* the guard of registerAutomation
alreadyRegistered_never(a) == FALSE

alreadyRegistered(a) == a \in subscribedAutomations

\* the registry after a registerAutomation(a) that has passed the guard
registered(reg, a) ==
  LET triggers == getCompatibleTriggers(builtTriggers[a]) IN
    IF Len(triggers) < 1 THEN reg ELSE registerTriggers(reg, triggers, a)

unregistered_withoutRecreate(reg, a) ==
  unregisterTriggers(reg, getCompatibleTriggers(builtTriggers[a]), a)

\* the registry after unregisterAutomation(a)
unregistered(reg, a) ==
  recreateSubscribedAutomationsSet(
    unregisterTriggers(reg, getCompatibleTriggers(builtTriggers[a]), a))

SetRegistry(reg) ==
  /\ subscriptionsOfAllEvents' = reg.all
  /\ subscriptionsByDeviceId' = reg.byDevice
  /\ subscriptionsByAttributeName' = reg.byAttribute
  /\ subscribedAutomations' = reg.subscribed

\* the locals of handleEvent outside a call
ResetLocals ==
  /\ event' = NoEvent
  /\ unhandledAutomations' = {}
  /\ bucket' = 0
  /\ index' = 0
  /\ invoked' = <<>>

registerAutomation(a) ==
  /\ pc = "idle"
  /\ op' = "registerAutomation"
  /\ automation' = a
  /\ IF alreadyRegistered(a)
     THEN /\ error' = TRUE
          /\ UNCHANGED <<registry, lifecycle>>
     ELSE /\ error' = FALSE
          /\ SetRegistry(registered(Reg, a))
          /\ lifecycle' = [lifecycle EXCEPT ![a] = "registered"]
  /\ ResetLocals
  /\ UNCHANGED <<builtTriggers, pc, matcher>>

unregisterAutomation(a) ==
  /\ pc = "idle"
  /\ op' = "unregisterAutomation"
  /\ automation' = a
  /\ error' = FALSE
  /\ SetRegistry(unregistered(Reg, a))
  /\ lifecycle' = IF lifecycle[a] = "registered"
                  THEN [lifecycle EXCEPT ![a] = "unregistered"] ELSE lifecycle
  /\ ResetLocals
  /\ UNCHANGED <<builtTriggers, pc, matcher>>

(***************************************************************************)
(* Event router                                                            *)
(***************************************************************************)
Candidates_attributeFirst(b) ==
  CASE b = 1 -> subscriptionsOfAllEvents
    [] b = 2 -> getSet(subscriptionsByAttributeName, event.attributeName)
    [] b = 3 -> getSet(subscriptionsByDeviceId, event.deviceId)
    [] OTHER -> <<>>

Candidates_noAttributeLoop(b) ==
  CASE b = 1 -> subscriptionsOfAllEvents
    [] b = 2 -> getSet(subscriptionsByDeviceId, event.deviceId)
    [] OTHER -> <<>>

Reverse(seq) == [i \in 1..Len(seq) |-> seq[Len(seq) + 1 - i]]

Candidates_reversed(b) ==
  CASE b = 1 -> Reverse(subscriptionsOfAllEvents)
    [] b = 2 -> Reverse(getSet(subscriptionsByDeviceId, event.deviceId))
    [] b = 3 -> Reverse(getSet(subscriptionsByAttributeName, event.attributeName))
    [] OTHER -> <<>>

\* the collection iterated by the first, second and third loop of handleEvent
Candidates(b) ==
  CASE b = 1 -> subscriptionsOfAllEvents
    [] b = 2 -> getSet(subscriptionsByDeviceId, event.deviceId)
    [] b = 3 -> getSet(subscriptionsByAttributeName, event.attributeName)
    [] OTHER -> <<>>

\* the guard of handleEvent
ignored_never(e) == FALSE

ignored(e) == e.eventType # HUBITAT_DEVICE_EVENT_TYPE

\* unhandledAutomations.delete(automation)
handled_kept(unhandled, a) == unhandled

handled(unhandled, a) == unhandled \ {a}

\* where control goes after the callback: a throw leaves handleEvent
afterCallback_swallowed(throws) == "dispatch"

afterCallback(throws) == IF throws THEN "idle" ELSE "dispatch"

handleEvent_staleCopy(e) ==
  /\ pc = "idle"
  /\ op' = "handleEvent"
  /\ automation' = NoAutomation
  /\ event' = e
  /\ error' = FALSE
  /\ invoked' = <<>>
  /\ IF ignored(e)
     THEN /\ pc' = "idle"
          /\ unhandledAutomations' = {}
          /\ bucket' = 0
          /\ index' = 0
     ELSE /\ pc' = "dispatch"
          /\ unhandledAutomations' =
               IF op = "handleEvent" /\ error
                 THEN unhandledAutomations ELSE subscribedAutomations
          /\ bucket' = 1
          /\ index' = 1
  /\ UNCHANGED <<builtTriggers, registry, lifecycle, matcher>>

\* handleEvent(e) up to its first loop: the eventType guard and the working copy
handleEvent(e) ==
  /\ pc = "idle"
  /\ op' = "handleEvent"
  /\ automation' = NoAutomation
  /\ event' = e
  /\ error' = FALSE
  /\ invoked' = <<>>
  /\ IF ignored(e)
     THEN /\ pc' = "idle"
          /\ unhandledAutomations' = {}
          /\ bucket' = 0
          /\ index' = 0
     ELSE /\ pc' = "dispatch"
          /\ unhandledAutomations' = subscribedAutomations
          /\ bucket' = 1
          /\ index' = 1
  /\ UNCHANGED <<builtTriggers, registry, lifecycle, matcher>>

runMatchingAutomation_aliased ==
  /\ pc = "dispatch"
  /\ index <= Len(Candidates(bucket))
  /\ LET a == Candidates(bucket)[index] IN
       IF a \notin unhandledAutomations \/ ~matchEvent(builtTriggers[a], event)
       THEN /\ index' = index + 1
            /\ UNCHANGED <<pc, error, unhandledAutomations, invoked,
                           subscribedAutomations>>
       ELSE /\ unhandledAutomations' = handled(unhandledAutomations, a)
            /\ subscribedAutomations' = handled(subscribedAutomations, a)
            /\ invoked' = Append(invoked, a)
            /\ \E throws \in BOOLEAN :
                 /\ error' = throws
                 /\ pc' = afterCallback(throws)
                 /\ index' = IF throws THEN index ELSE index + 1
  /\ UNCHANGED <<builtTriggers, subscriptionsByDeviceId, subscriptionsByAttributeName,
                 subscriptionsOfAllEvents, op, automation, event, bucket,
                 lifecycle, matcher>>

\* runMatchingAutomation(automation) for the automation under the iterator;
\* the callback automation.handleEvent(event) returns or throws
runMatchingAutomation ==
  /\ pc = "dispatch"
  /\ index <= Len(Candidates(bucket))
  /\ LET a == Candidates(bucket)[index] IN
       IF a \notin unhandledAutomations \/ ~matchEvent(builtTriggers[a], event)
       THEN /\ index' = index + 1
            /\ UNCHANGED <<pc, error, unhandledAutomations, invoked>>
       ELSE /\ unhandledAutomations' = handled(unhandledAutomations, a)
            /\ invoked' = Append(invoked, a)
            /\ \E throws \in BOOLEAN :
                 /\ error' = throws
                 /\ pc' = afterCallback(throws)
                 /\ index' = IF throws THEN index ELSE index + 1
  /\ UNCHANGED <<builtTriggers, registry, op, automation, event, bucket,
                 lifecycle, matcher>>

\* a loop of handleEvent is exhausted and the next one begins
nextLoop ==
  /\ pc = "dispatch"
  /\ index > Len(Candidates(bucket))
  /\ bucket < 3
  /\ bucket' = bucket + 1
  /\ index' = 1
  /\ UNCHANGED <<builtTriggers, registry, pc, op, automation, event, error,
                 unhandledAutomations, invoked, lifecycle, matcher>>

\* the last loop is exhausted and handleEvent returns
return ==
  /\ pc = "dispatch"
  /\ index > Len(Candidates(bucket))
  /\ bucket = 3
  /\ pc' = "idle"
  /\ UNCHANGED <<builtTriggers, registry, op, automation, event, error,
                 unhandledAutomations, bucket, index, invoked, lifecycle, matcher>>

\* runMatchingAutomation up to the call of the callback, which is left open
\* for what the callback does before it returns or throws
invokeCallback_liveSubscribed ==
  /\ pc = "dispatch"
  /\ index <= Len(Candidates(bucket))
  /\ LET a == Candidates(bucket)[index] IN
       IF \/ a \notin subscribedAutomations
          \/ a \in Range(invoked)
          \/ ~matchEvent(builtTriggers[a], event)
       THEN /\ index' = index + 1
            /\ UNCHANGED <<pc, unhandledAutomations, invoked>>
       ELSE /\ unhandledAutomations' = handled(unhandledAutomations, a)
            /\ invoked' = Append(invoked, a)
            /\ pc' = "callback"
            /\ index' = index
  /\ UNCHANGED <<builtTriggers, registry, op, automation, event, error, bucket,
                 lifecycle, matcher>>

invokeCallback ==
  /\ pc = "dispatch"
  /\ index <= Len(Candidates(bucket))
  /\ LET a == Candidates(bucket)[index] IN
       IF a \notin unhandledAutomations \/ ~matchEvent(builtTriggers[a], event)
       THEN /\ index' = index + 1
            /\ UNCHANGED <<pc, unhandledAutomations, invoked>>
       ELSE /\ unhandledAutomations' = handled(unhandledAutomations, a)
            /\ invoked' = Append(invoked, a)
            /\ pc' = "callback"
            /\ index' = index
  /\ UNCHANGED <<builtTriggers, registry, op, automation, event, error, bucket,
                 lifecycle, matcher>>

\* the running callback calls registerAutomation(d) for an automation that is
\* not subscribed
callbackRegisters(d) ==
  /\ pc = "callback"
  /\ ~alreadyRegistered(d)
  /\ SetRegistry(registered(Reg, d))
  /\ lifecycle' = [lifecycle EXCEPT ![d] = "registered"]
  /\ UNCHANGED <<builtTriggers, pc, op, automation, event, error, locals,
                 invoked, matcher>>

\* the running callback returns or throws
callbackEnds ==
  /\ pc = "callback"
  /\ \E throws \in BOOLEAN :
       /\ error' = throws
       /\ pc' = afterCallback(throws)
       /\ index' = IF throws THEN index ELSE index + 1
  /\ UNCHANGED <<builtTriggers, registry, op, automation, event,
                 unhandledAutomations, bucket, invoked, lifecycle, matcher>>

(***************************************************************************)
(* Automations of the registry model                                       *)
(***************************************************************************)
CatchAll == Trigger({}, <<>>)
OnDevice5 == Trigger({5}, <<>>)
OnDevices == Trigger(DeviceIds, <<>>)
SwitchOn == AttrFilter({"switch"}, <<Group(<<Filter("is", "on"), Filter("was", "off")>>)>>)
AnyChange == AttrFilter(AttributeNames, <<Group(<<Filter("changes", "")>>)>>)
Nameless == AttrFilter({}, <<Group(<<>>)>>)
OnDevice5SwitchOn == Trigger({5}, <<SwitchOn>>)
OnSwitchOn == Trigger({}, <<SwitchOn>>)
OnSwitch == Trigger({}, <<AttrFilter({"switch"}, <<Group(<<>>)>>)>>)
OnNoName == Trigger({}, <<Nameless>>)

TriggerLists ==
  << <<>>, <<ForeignTrigger>>, <<CatchAll>>, <<OnDevice5>>, <<OnSwitch>>,
     <<OnNoName>>, <<CatchAll, OnDevice5>>, <<OnDevice5SwitchOn, OnSwitchOn>>,
     <<OnDevice5SwitchOn>>,
     <<ForeignTrigger, OnDevices, Trigger({}, <<AnyChange>>)>> >>

\* the automations are interchangeable identities: it is enough to hand out
\* the trigger lists in the order of TriggerLists
Built ==
  { [a \in Automations |-> TriggerLists[f[a]]] :
      f \in {g \in [Automations -> 1..Len(TriggerLists)] :
               g["A"] <= g["B"] /\ g["B"] <= g["C"]} }

(***************************************************************************)
(* Inputs of the matcher                                                   *)
(***************************************************************************)
SeqsUpTo(S, n) == UNION {[1..k -> S] : k \in 0..n}

ChangeFilters ==
  { Filter("changes", ""), Filter("is", "on"), Filter("is-not", "on"),
    Filter("was", "off"), Filter("was-not", "off"), Filter("unknown", "on") }

ChangeGroups == {Group(fs) : fs \in SeqsUpTo(ChangeFilters, MaxGroupLen)}
ShortGroups == {Group(fs) : fs \in SeqsUpTo(ChangeFilters, 1)}

\* attribute filters in depth: every group alone, and pairs of short groups
DeepFilters ==
  { AttrFilter(names, groups) :
      names \in SUBSET AttributeNames,
      groups \in SeqsUpTo(ChangeGroups, 1) \cup [1..2 -> ShortGroups] }

PlainFilters ==
  { SwitchOn, AnyChange, Nameless, AttrFilter({"level"}, <<>>),
    AttrFilter({"level"}, <<Group(<<>>)>>) }

DeepTriggers ==
  {Trigger({}, <<f>>) : f \in DeepFilters}
    \cup {Trigger({}, <<f, g>>) : f \in PlainFilters, g \in PlainFilters}

PlainTriggers ==
  {ForeignTrigger} \cup
  { Trigger(devs, attrs) :
      devs \in {{}, {5}, DeviceIds},
      attrs \in {<<>>} \cup {<<f>> : f \in PlainFilters} }

MatchInputs ==
  [ triggers : {<<t>> : t \in DeepTriggers} \cup SeqsUpTo(PlainTriggers, MaxTriggers),
    event : DeviceEvents ]

NoInput == [triggers |-> <<>>, event |-> NoEvent]
NoOutput == [called |-> FALSE, matchEvent |-> FALSE, matchAttributes |-> <<>>]

\* a call of matchEvent, and of matchAttributes for each device-event trigger
evaluate ==
  /\ ~matchOutput.called
  /\ matchInput # NoInput
  /\ LET triggers == getCompatibleTriggers(matchInput.triggers) IN
       matchOutput' =
         [called |-> TRUE,
          matchEvent |-> matchEvent(matchInput.triggers, matchInput.event),
          matchAttributes |->
            [i \in 1..Len(triggers) |-> matchAttributes(triggers[i], matchInput.event)]]
  /\ UNCHANGED <<builtTriggers, registry, pc, op, automation, event, error,
                 locals, invoked, lifecycle, matchInput>>

(***************************************************************************)
(* Specifications                                                          *)
(***************************************************************************)
EmptyRegistry ==
  /\ subscriptionsByDeviceId = [k \in DeviceIds |-> <<>>]
  /\ subscriptionsByAttributeName = [k \in AttributeNames |-> <<>>]
  /\ subscriptionsOfAllEvents = <<>>
  /\ subscribedAutomations = {}
  /\ pc = "idle"
  /\ op = "none"
  /\ automation = NoAutomation
  /\ event = NoEvent
  /\ error = FALSE
  /\ unhandledAutomations = {}
  /\ bucket = 0
  /\ index = 0
  /\ invoked = <<>>
  /\ lifecycle = [a \in Automations |-> "never"]
  /\ regOrder = <<>>
  /\ reregistered = {}
  /\ previous = NoPrevious
  /\ joined = {}

\* the service after construction, for any automations built by the host
Init ==
  /\ builtTriggers \in Built
  /\ EmptyRegistry
  /\ matchInput = NoInput
  /\ matchOutput = NoOutput

Next ==
  \/ \E a \in Automations : registerAutomation(a) /\ UNCHANGED history
  \/ \E a \in Automations : unregisterAutomation(a) /\ UNCHANGED history
  \/ \E e \in Events : handleEvent(e) /\ UNCHANGED history
  \/ runMatchingAutomation /\ UNCHANGED history
  \/ nextLoop /\ UNCHANGED history
  \/ return /\ UNCHANGED history

Spec == Init /\ [][Next]_vars

\* the same calls, with the order of the registrations recorded
registerRecorded(a) ==
  /\ registerAutomation(a)
  /\ regOrder' = IF error' THEN regOrder
                 ELSE Append(SelectSeq(regOrder, LAMBDA x : x # a), a)
  /\ reregistered' = IF error' THEN reregistered
                     ELSE IF lifecycle[a] = "never" THEN reregistered \ {a}
                     ELSE reregistered \cup {a}
  /\ UNCHANGED <<previous, joined>>

unregisterRecorded(a) ==
  /\ unregisterAutomation(a)
  /\ regOrder' = SelectSeq(regOrder, LAMBDA x : x # a)
  /\ reregistered' = reregistered \ {a}
  /\ UNCHANGED <<previous, joined>>

\* automations whose buckets overlap, so that their order shows
BuiltOrder ==
  {b \in Built :
     \A a \in Automations :
       b[a] \in { <<CatchAll>>, <<OnDevice5>>, <<OnSwitch>>, <<CatchAll, OnDevice5>>,
                  <<OnDevice5SwitchOn, OnSwitchOn>>,
                  <<ForeignTrigger, OnDevices, Trigger({}, <<AnyChange>>)>> }}

InitOrder ==
  /\ builtTriggers \in BuiltOrder
  /\ EmptyRegistry
  /\ matchInput = NoInput
  /\ matchOutput = NoOutput

NextOrder ==
  \/ \E a \in Automations : registerRecorded(a)
  \/ \E a \in Automations : unregisterRecorded(a)
  \/ \E e \in Events : handleEvent(e) /\ UNCHANGED history
  \/ runMatchingAutomation /\ UNCHANGED history
  \/ nextLoop /\ UNCHANGED history
  \/ return /\ UNCHANGED history

SpecOrder == InitOrder /\ [][NextOrder]_vars

\* the same calls, with the failure of the preceding handleEvent call recorded
handleEventAfter(e) ==
  /\ handleEvent(e)
  /\ previous' = IF op = "handleEvent" /\ error
                 THEN [failed |-> invoked[Len(invoked)], pending |-> unhandledAutomations]
                 ELSE NoPrevious
  /\ UNCHANGED <<regOrder, reregistered, joined>>

registerAfter(a) ==
  /\ registerAutomation(a)
  /\ previous' = NoPrevious
  /\ UNCHANGED <<regOrder, reregistered, joined>>

unregisterAfter(a) ==
  /\ unregisterAutomation(a)
  /\ previous' = NoPrevious
  /\ UNCHANGED <<regOrder, reregistered, joined>>

NextFailure ==
  \/ \E a \in Automations : registerAfter(a)
  \/ \E a \in Automations : unregisterAfter(a)
  \/ \E e \in Events : handleEventAfter(e)
  \/ runMatchingAutomation /\ UNCHANGED history
  \/ nextLoop /\ UNCHANGED history
  \/ return /\ UNCHANGED history

SpecFailure == Init /\ [][NextFailure]_vars

\* callbacks that register automations while handleEvent is dispatching
registerBetweenCalls(a) ==
  /\ registerAutomation(a)
  /\ joined' = {}
  /\ UNCHANGED <<regOrder, reregistered, previous>>

unregisterBetweenCalls(a) ==
  /\ unregisterAutomation(a)
  /\ joined' = {}
  /\ UNCHANGED <<regOrder, reregistered, previous>>

handleEventReentrant(e) ==
  /\ handleEvent(e)
  /\ joined' = {}
  /\ UNCHANGED <<regOrder, reregistered, previous>>

registerInCallback(d) ==
  /\ callbackRegisters(d)
  /\ joined' = joined \cup {d}
  /\ UNCHANGED <<regOrder, reregistered, previous>>

NextReentrant ==
  \/ \E a \in Automations : registerBetweenCalls(a)
  \/ \E a \in Automations : unregisterBetweenCalls(a)
  \/ \E e \in Events : handleEventReentrant(e)
  \/ invokeCallback /\ UNCHANGED history
  \/ \E d \in Automations : registerInCallback(d)
  \/ callbackEnds /\ UNCHANGED history
  \/ nextLoop /\ UNCHANGED history
  \/ return /\ UNCHANGED history

SpecReentrant == Init /\ [][NextReentrant]_vars

\* the matcher alone, on inputs drawn from MatchInputs
InitMatch ==
  /\ builtTriggers = [a \in Automations |-> <<>>]
  /\ EmptyRegistry
  /\ matchInput \in MatchInputs
  /\ matchOutput = NoOutput

NextMatch == evaluate /\ UNCHANGED history

SpecMatch == InitMatch /\ [][NextMatch]_vars

(***************************************************************************)
(* Properties                                                              *)
(***************************************************************************)
IndexUnion ==
  Range(subscriptionsOfAllEvents) \cup getSubscribers(subscriptionsByDeviceId)
    \cup getSubscribers(subscriptionsByAttributeName)

\* a handleEvent call on a device event has ended (returned or thrown)
Dispatched ==
  op = "handleEvent" /\ pc = "idle" /\ event.eventType = HUBITAT_DEVICE_EVENT_TYPE

Count(seq, a) == Cardinality({i \in 1..Len(seq) : seq[i] = a})

\* the three buckets the current event is routed through, in the order
\* catch-all set, bucket of event.deviceId, bucket of event.attributeName
Buckets ==
  << subscriptionsOfAllEvents,
     IF event.deviceId \in DeviceIds
       THEN subscriptionsByDeviceId[event.deviceId] ELSE <<>>,
     IF event.attributeName \in AttributeNames
       THEN subscriptionsByAttributeName[event.attributeName] ELSE <<>> >>

\* the buckets of the current event in which automation a is present
RelevantBuckets(a) == {b \in 1..3 : a \in Range(Buckets[b])}

FirstBucket(a) == CHOOSE b \in RelevantBuckets(a) : \A c \in RelevantBuckets(a) : b <= c

Matches(a) == matchEvent(builtTriggers[a], event)

RECURSIVE FirstOccurrences(_, _)
FirstOccurrences(seq, seen) ==
  IF seq = <<>> THEN <<>>
  ELSE IF Head(seq) \in seen THEN FirstOccurrences(Tail(seq), seen)
  ELSE <<Head(seq)>> \o FirstOccurrences(Tail(seq), seen \cup {Head(seq)})

\* the subscribed, matching automations in candidate order
Expected ==
  FirstOccurrences(
    SelectSeq(Buckets[1] \o Buckets[2] \o Buckets[3],
              LAMBDA a : a \in subscribedAutomations /\ Matches(a)), {})

\* C1: after any sequence of registerAutomation / unregisterAutomation calls
\* subscribedAutomations is exactly the union of the catch-all set, the
\* device-id buckets and the attribute-name buckets
C1_UnionInvariant == subscribedAutomations = IndexUnion

\* C2 (as claimed): an automation present in more than one bucket relevant to
\* the event has been invoked exactly once when handleEvent ends
C2_ExactlyOnceInAnyBuckets ==
  Dispatched =>
    \A a \in Automations :
      Cardinality(RelevantBuckets(a)) > 1 => Count(invoked, a) = 1

\* C2 (amended): no automation is invoked twice within one handleEvent call,
\* and an automation present in more than one relevant bucket that matches
\* the event has been invoked exactly once when the call returns normally
C2_AtMostOnce ==
  /\ \A a \in Automations : Count(invoked, a) <= 1
  /\ (Dispatched /\ ~error) =>
       \A a \in Automations :
         (Cardinality(RelevantBuckets(a)) > 1 /\ Matches(a)) => Count(invoked, a) = 1

C2_Witness ==
  /\ Dispatched /\ ~error
  /\ \E a \in Automations :
       Cardinality(RelevantBuckets(a)) > 1 /\ Matches(a) /\ Count(invoked, a) = 1

\* C3: when handleEvent returns and no callback has thrown, the automations
\* invoked are exactly the subscribed automations that match the event
C3_Delivery ==
  (Dispatched /\ ~error) =>
    Range(invoked) = {a \in subscribedAutomations : Matches(a)}

C3_Witness ==
  /\ Dispatched /\ ~error
  /\ Len(invoked) >= 2
  /\ \E a \in subscribedAutomations : ~Matches(a)

\* C4 (as claimed): a registerAutomation(a) call that follows a
\* registerAutomation(a) call with no unregisterAutomation(a) in between
\* throws and leaves the registry as it was
C4_SecondRegisterRejected ==
  [][\A a \in Automations :
       (op' = "registerAutomation" /\ automation' = a /\ lifecycle[a] = "registered")
         => (error' /\ UNCHANGED registry)]_vars

\* C4 (amended): registerAutomation of an automation that is in
\* subscribedAutomations throws and leaves the three indices and the
\* subscribed set as they were
C4_SubscribedRejected ==
  [][\A a \in Automations :
       (op' = "registerAutomation" /\ automation' = a /\ a \in subscribedAutomations)
         => (error' /\ UNCHANGED registry)]_vars

C4_Witness ==
  /\ op = "registerAutomation" /\ error
  /\ automation \in subscribedAutomations
  /\ lifecycle[automation] = "registered"

\* C5: an automation that has been unregistered and not registered again is
\* in no index and not in subscribedAutomations, and no handleEvent call
\* invokes it
C5_Unregistered ==
  \A a \in Automations :
    lifecycle[a] = "unregistered" =>
      a \notin subscribedAutomations /\ a \notin IndexUnion /\ a \notin Range(invoked)

C5_Witness ==
  /\ Dispatched /\ invoked # <<>>
  /\ \E a \in Automations : lifecycle[a] = "unregistered" /\ Matches(a)

\* C6: within one handleEvent call the callbacks run in the order catch-all
\* set, bucket of event.deviceId, bucket of event.attributeName, each
\* automation at its first occurrence
C6_Order ==
  op = "handleEvent" =>
    \A i, j \in 1..Len(invoked) :
      i < j =>
        /\ RelevantBuckets(invoked[i]) # {}
        /\ RelevantBuckets(invoked[j]) # {}
        /\ FirstBucket(invoked[i]) <= FirstBucket(invoked[j])

C6_Witness ==
  /\ Dispatched /\ Len(invoked) = 3
  /\ event.deviceId = 5 /\ event.attributeName = "switch"
  /\ builtTriggers[invoked[1]] = <<CatchAll>>
  /\ builtTriggers[invoked[2]] = <<OnDevice5>>
  /\ builtTriggers[invoked[3]] = <<OnSwitch>>

\* C7: when a callback throws, the matching candidates before it have been
\* invoked, it has been invoked once, no later candidate is invoked and
\* handleEvent ends with the error
C7_ShortCircuit ==
  (op = "handleEvent" /\ error) =>
    /\ pc = "idle"
    /\ Len(invoked) >= 1
    /\ Len(invoked) <= Len(Expected)
    /\ invoked = SubSeq(Expected, 1, Len(invoked))

C7_Witness ==
  /\ op = "handleEvent" /\ error
  /\ Len(invoked) = 2
  /\ Len(Expected) = 3

\* C8: handleEvent on an event of another eventType invokes no callback,
\* raises no error and leaves the registry unchanged
C8_ForeignEvent ==
  /\ []((op = "handleEvent" /\ event.eventType # HUBITAT_DEVICE_EVENT_TYPE) =>
          (pc = "idle" /\ invoked = <<>> /\ ~error))
  /\ [][(op' = "handleEvent" /\ event'.eventType # HUBITAT_DEVICE_EVENT_TYPE) =>
          UNCHANGED registry]_vars

C8_Witness ==
  /\ op = "handleEvent" /\ event.eventType = OtherType
  /\ subscriptionsOfAllEvents # <<>>
  /\ subscriptionsByDeviceId[event.deviceId] # <<>>

\* the table of change filters
FilterHolds(f, e) ==
  \/ f.name = "changes"
  \/ f.name = "is" /\ e.newValue = f.value
  \/ f.name = "is-not" /\ e.newValue # f.value
  \/ f.name = "was" /\ e.previousValue = f.value
  \/ f.name = "was-not" /\ e.previousValue # f.value

\* some attribute filter names the event's attribute and has a change group
\* all of whose change filters hold
AttributesMatch(t, e) ==
  \E f \in Range(t.attributes) :
    /\ e.attributeName \in f.attributeNames
    /\ \E g \in Range(f.changeGroups) : \A c \in Range(g.filters) : FilterHolds(c, e)

\* C9: matchEvent is true iff some device-event trigger definition has
\* (no devices, or the event's device) and (no attributes, or matching
\* attribute filters)
C9_MatchEvent ==
  matchOutput.called =>
    matchOutput.matchEvent =
      \E t \in Range(matchInput.triggers) :
        /\ t.triggerType = HUBITAT_DEVICE_EVENT_TYPE
        /\ \/ t.devices = {} /\ (t.attributes = <<>> \/ AttributesMatch(t, matchInput.event))
           \/ /\ matchInput.event.deviceId \in t.devices
              /\ (t.attributes = <<>> \/ AttributesMatch(t, matchInput.event))

C9_Witness ==
  /\ matchOutput.called /\ matchOutput.matchEvent
  /\ Len(matchInput.triggers) = 2
  /\ matchInput.triggers[1] = ForeignTrigger
  /\ matchInput.triggers[2].devices # {}
  /\ matchInput.triggers[2].attributes # <<>>

\* C10: the attribute filters of a trigger match iff some filter names the
\* event's attribute and has a change group all of whose filters hold
C10_MatchAttributes ==
  matchOutput.called =>
    LET triggers == getCompatibleTriggers(matchInput.triggers) IN
      /\ Len(matchOutput.matchAttributes) = Len(triggers)
      /\ \A i \in 1..Len(triggers) :
           matchOutput.matchAttributes[i] = AttributesMatch(triggers[i], matchInput.event)

C10_Witness ==
  /\ matchOutput.called
  /\ Len(matchInput.triggers) = 1
  /\ matchInput.triggers[1].attributes =
       <<AttrFilter({"switch"}, <<Group(<<Filter("is", "on"), Filter("was", "off")>>)>>)>>
  /\ matchInput.event.newValue = "on" /\ matchInput.event.previousValue = "off"
  /\ matchInput.event.attributeName = "switch"
  /\ matchOutput.matchAttributes = <<TRUE>>

\* the device-event trigger definitions of automation a, by triggerType
DeviceEventTriggers(a) ==
  {t \in Range(builtTriggers[a]) : t.triggerType = HUBITAT_DEVICE_EVENT_TYPE}

\* the buckets in which automation a is present
InCatchAll(a) == a \in Range(subscriptionsOfAllEvents)
DevicesOf(a) == {d \in DeviceIds : a \in Range(subscriptionsByDeviceId[d])}
AttributesOf(a) == {n \in AttributeNames : a \in Range(subscriptionsByAttributeName[n])}

\* the buckets the trigger definitions of automation a describe
DescribedCatchAll(a) ==
  \E t \in DeviceEventTriggers(a) : t.devices = {} /\ t.attributes = <<>>
DescribedDevices(a) ==
  UNION {t.devices : t \in {u \in DeviceEventTriggers(a) : u.devices # {}}}
DescribedAttributes(a) ==
  UNION { UNION {f.attributeNames : f \in Range(t.attributes)} :
            t \in {u \in DeviceEventTriggers(a) : u.devices = {}} }

InDescribedBuckets(a) ==
  /\ InCatchAll(a) <=> DescribedCatchAll(a)
  /\ DevicesOf(a) = DescribedDevices(a)
  /\ AttributesOf(a) = DescribedAttributes(a)

\* C11: registerAutomation of an automation without a device-event trigger
\* definition raises no error and changes nothing; the automation is in no
\* index, not in subscribedAutomations and never invoked
C11_NoDeviceEventTrigger ==
  /\ [](\A a \in Automations :
          DeviceEventTriggers(a) = {} =>
            /\ a \notin subscribedAutomations
            /\ a \notin IndexUnion
            /\ a \notin Range(invoked)
            /\ (op = "registerAutomation" /\ automation = a) => ~error)
  /\ [][\A a \in Automations :
          (op' = "registerAutomation" /\ automation' = a /\ DeviceEventTriggers(a) = {})
            => UNCHANGED registry]_vars

C11_Witness ==
  /\ op = "registerAutomation" /\ ~error
  /\ builtTriggers[automation] = <<ForeignTrigger>>
  /\ subscribedAutomations # {}

C13_OthersKept ==
  [][\A a, b \in Automations :
       (op' = "unregisterAutomation" /\ automation' = a /\ b # a)
       => ( /\ InCatchAll(b)' = InCatchAll(b)
            /\ DevicesOf(b)' = DevicesOf(b)
            /\ AttributesOf(b)' = AttributesOf(b)
            /\ (b \in subscribedAutomations') = (b \in subscribedAutomations) )]_vars

\* C14: every device-event trigger definition is indexed by exactly one
\* branch: catch-all set when devices and attributes are empty, its device
\* ids when devices is non-empty, else its attribute names; a registered
\* automation is in the union of the buckets chosen per trigger and no other
C14_OneBranchPerTrigger ==
  \A a \in Automations :
    IF lifecycle[a] = "registered" THEN InDescribedBuckets(a) ELSE a \notin IndexUnion

C14_Witness ==
  \E a, b \in Automations :
    /\ lifecycle[a] = "registered" /\ lifecycle[b] = "registered"
    /\ builtTriggers[a] = <<OnDevice5SwitchOn>>
    /\ DevicesOf(a) = {5} /\ AttributesOf(a) = {}
    /\ builtTriggers[b] = <<CatchAll, OnDevice5>>
    /\ InCatchAll(b) /\ DevicesOf(b) = {5}

\* C15: right after every unregisterAutomation call subscribedAutomations is
\* exactly the union of the catch-all set and all buckets
C15_RebuiltOnUnregister ==
  op = "unregisterAutomation" => subscribedAutomations = IndexUnion

\* an automation that was in subscribedAutomations and in no bucket has been
\* dropped by the unregistration of another one
C15_Witness ==
  /\ op = "unregisterAutomation"
  /\ IndexUnion # {}
  /\ \E b \in Automations :
       /\ b # automation
       /\ lifecycle[b] = "registered"
       /\ DeviceEventTriggers(b) # {}
       /\ b \notin subscribedAutomations

\* the orders in which a sequence can be written
Orders(seq) ==
  {[i \in 1..Len(seq) |-> seq[p[i]]] : p \in Permutations(1..Len(seq))}

\* the sequences that take, at every position, one of the variants of the
\* element of seq at that position
EachOf(seq, V(_)) ==
  {t \in [1..Len(seq) -> UNION {V(seq[i]) : i \in 1..Len(seq)}] :
     \A i \in 1..Len(seq) : t[i] \in V(seq[i])}

GroupOrders(g) == {Group(fs) : fs \in Orders(g.filters)}

FilterOrders(f) ==
  { AttrFilter(f.attributeNames, gs) :
      gs \in UNION {Orders(t) : t \in EachOf(f.changeGroups, GroupOrders)} }

TriggerOrders(t) ==
  { [t EXCEPT !.attributes = fs] :
      fs \in UNION {Orders(u) : u \in EachOf(t.attributes, FilterOrders)} }

\* a trigger list with its definitions, their attribute filters, their change
\* groups and their change filters permuted in every way
ListOrders(l) == UNION {Orders(u) : u \in EachOf(l, TriggerOrders)}

\* C17: permuting the trigger definitions, the attribute filters of a
\* trigger, the change groups of a filter or the change filters of a group
\* never changes the result of matchEvent
C17_OrderIndependent ==
  matchOutput.called =>
    \A l \in ListOrders(matchInput.triggers) :
      matchEvent(l, matchInput.event) = matchOutput.matchEvent

C17_Witness ==
  /\ matchOutput.called /\ matchOutput.matchEvent
  /\ Len(matchInput.triggers) = 2
  /\ ~matchEvent(<<matchInput.triggers[1]>>, matchInput.event)
  /\ Cardinality(ListOrders(matchInput.triggers)) > 2

\* C18: no step of a handleEvent call changes the catch-all set, the index
\* maps or subscribedAutomations, whether the call is discarded, returns or
\* ends with a callback failure
C18_RegistryUntouched ==
  [][(pc = "dispatch" \/ op' = "handleEvent") => UNCHANGED registry]_vars

C18_Witness ==
  /\ Dispatched /\ error
  /\ Len(invoked) >= 2
  /\ unhandledAutomations # subscribedAutomations
  /\ subscribedAutomations = IndexUnion

\* the position of a registered automation in the order of the registrations
Position(seq, a) == CHOOSE i \in 1..Len(seq) : seq[i] = a

InOrder(seq) ==
  \A i, j \in 1..Len(seq) :
    i < j => /\ seq[i] \in Range(regOrder) /\ seq[j] \in Range(regOrder)
             /\ Position(regOrder, seq[i]) < Position(regOrder, seq[j])

AllBuckets ==
  {subscriptionsOfAllEvents}
    \cup {subscriptionsByDeviceId[d] : d \in DeviceIds}
    \cup {subscriptionsByAttributeName[n] : n \in AttributeNames}

\* the callbacks one handleEvent call has invoked out of bucket b
InvokedFrom(b) == SelectSeq(invoked, LAMBDA a : FirstBucket(a) = b)

IsPrefix(s, t) == Len(s) <= Len(t) /\ s = SubSeq(t, 1, Len(s))

\* C19: in the handleEvent call that follows a call ended by a callback
\* failure the pending set starts as the whole subscribed set again: each
\* subscribed automation matching the new event is invoked once, in candidate
\* order, up to the first failing callback, the automation that failed and
\* the automations that were skipped before included
C19_FailureForgotten ==
  (previous # NoPrevious /\ op = "handleEvent"
     /\ event.eventType = HUBITAT_DEVICE_EVENT_TYPE) =>
    /\ unhandledAutomations = subscribedAutomations \ Range(invoked)
    /\ IsPrefix(invoked, Expected)
    /\ \A a \in Automations : Count(invoked, a) <= 1
    /\ (pc = "idle" /\ ~error) =>
         Range(invoked) = {a \in subscribedAutomations : Matches(a)}

C19_Witness ==
  /\ Dispatched /\ ~error
  /\ previous # NoPrevious
  /\ previous.failed \in Range(invoked)
  /\ previous.pending \cap Range(invoked) # {}

\* C20: an automation registered by a callback of the running handleEvent
\* call and matching its event is subscribed and indexed at once, is not
\* invoked by that call, and is in the pending set of the next call
C20_JoinsNextCycle ==
  /\ [](\A d \in joined :
          Matches(d) => /\ d \in subscribedAutomations
                        /\ RelevantBuckets(d) # {}
                        /\ d \notin unhandledAutomations
                        /\ d \notin Range(invoked))
  /\ [][(pc = "idle" /\ op' = "handleEvent"
           /\ event'.eventType = HUBITAT_DEVICE_EVENT_TYPE) =>
          \A d \in joined :
            Matches(d) => d \in unhandledAutomations' /\ d \in IndexUnion']_vars

C20_Witness ==
  /\ Dispatched /\ ~error
  /\ \E d \in joined :
       /\ Matches(d)
       /\ d \in Range(Buckets[3])
       /\ \E a \in Range(invoked) : FirstBucket(a) < 3

====
